---- MODULE Spec2Model ----
(***************************************************************************)
(* Model of the semantic-state engine of src/crate/src/lib.rs:             *)
(* the vector math on f32, the WasmStateEngine struct and its two          *)
(* operations update and get_snapshot.                                     *)
(***************************************************************************)
EXTENDS Integers, Sequences, FiniteSets, TLC

(***************************************************************************)
(* f32.  A binary floating-point value is a pair <<m, e>> standing for     *)
(* m * 2^e, with IEEE-754 semantics: round to nearest, ties to even;       *)
(* gradual underflow; overflow to infinity; NaN.  The exponent range is    *)
(* that of f32.  The significand has P bits instead of f32's 24, so that   *)
(* every intermediate value fits a machine integer of the checker.         *)
(* -0.0 and +0.0 compare equal in every comparison of the source and are   *)
(* one value here.                                                         *)
(***************************************************************************)
P == 8

EMAX == 127

EMIN == -126

\* exponent of the unit in the last place of the largest / smallest binade
EHi == EMAX - (P - 1)

ELo == EMIN - (P - 1)

\* exponent tag of the special values
ESpecial == EMAX + 1

F32_NAN == <<0, ESpecial>>

F32_INFINITY == <<1, ESpecial>>

F32_NEG_INFINITY == <<-1, ESpecial>>

F32_ZERO == <<0, 0>>

IsNaN(x) == x = F32_NAN

IsInf(x) == x[2] = ESpecial /\ x[1] # 0

IsFinite(x) == x[2] # ESpecial

Sgn(n) == IF n > 0 THEN 1 ELSE IF n < 0 THEN -1 ELSE 0

AbsInt(n) == IF n < 0 THEN -n ELSE n

MinInt(a, b) == IF a < b THEN a ELSE b

MaxInt(a, b) == IF a > b THEN a ELSE b

RECURSIVE BitLen(_)
BitLen(a) == IF a = 0 THEN 0 ELSE 1 + BitLen(a \div 2)

\* sign s, significand m (at most 2^P after rounding up) and exponent t
F32Pack(s, m, t) ==
  IF m = 0 THEN F32_ZERO
  ELSE IF m = 2^P
       THEN (IF t + 1 > EHi THEN <<s, ESpecial>> ELSE <<s * 2^(P - 1), t + 1>>)
  ELSE IF t > EHi THEN <<s, ESpecial>>
  ELSE <<s * m, t>>

\* quotient q and remainder r of the dropped bits, half their weight:
\* round to nearest, ties to even
F32RoundNearestEven(s, q, r, half, t) ==
  F32Pack(s, IF r > half \/ (r = half /\ q % 2 = 1) THEN q + 1 ELSE q, t)

\* magnitude a * 2^e placed at the exponent t of its binade
F32RoundAt(s, a, e, t) ==
  IF t <= e THEN F32Pack(s, a * 2^(e - t), t)
  ELSE IF t - e > 30 THEN F32_ZERO
  ELSE F32RoundNearestEven(s, a \div 2^(t - e), a % 2^(t - e), 2^(t - e - 1), t)

\* Rounding of the exact value n * 2^e (n an integer below 2^31) to the
\* nearest representable value, ties to even.
RoundF32(n, e) ==
  IF n = 0 THEN F32_ZERO
  ELSE F32RoundAt(Sgn(n), AbsInt(n), e, MaxInt(e + BitLen(AbsInt(n)) - P, ELo))

\* an integer literal, or an integer-valued f64 cast with `as f32`
F32FromInt(n) == RoundF32(n, 0)

\* the f32 nearest to the decimal literal num/den (num, den > 0)
\* a quotient with its sticky bit: 2 * floor(n / d), plus 1 if inexact
StickyQuotient(n, d) == 2 * (n \div d) + (IF n % d = 0 THEN 0 ELSE 1)

RatioScale(num, den) == MaxInt(P + 3 + BitLen(den) - BitLen(num), 0)

F32FromRatio(num, den) ==
  RoundF32(StickyQuotient(num * 2^RatioScale(num, den), den),
           -(RatioScale(num, den) + 1))

\* 2^k as an f32
F32Pow2(k) == <<2^(P - 1), k - (P - 1)>>

F32Neg(x) == IF IsNaN(x) THEN x ELSE <<-x[1], x[2]>>

\* x < y on f32: false when either is NaN
F32Lt(x, y) ==
  IF IsNaN(x) \/ IsNaN(y) THEN FALSE
  ELSE IF x = y THEN FALSE
  ELSE IF IsInf(x) THEN x[1] < 0
  ELSE IF IsInf(y) THEN y[1] > 0
  ELSE IF Sgn(x[1]) # Sgn(y[1]) THEN Sgn(x[1]) < Sgn(y[1])
  ELSE IF x[1] > 0 THEN x[2] < y[2] \/ (x[2] = y[2] /\ x[1] < y[1])
  ELSE y[2] < x[2] \/ (x[2] = y[2] /\ x[1] < y[1])

F32Gt(x, y) == F32Lt(y, x)

\* x == y on f32: false when either is NaN
F32Eq(x, y) == ~IsNaN(x) /\ ~IsNaN(y) /\ x = y

F32Le(x, y) == F32Lt(x, y) \/ F32Eq(x, y)

\* both operands at the exponent e of the smaller one: the sum is exact
F32AddAligned(x, y, e) ==
  RoundF32(x[1] * 2^(x[2] - e) + y[1] * 2^(y[2] - e), e)

\* y is below the guard bits of x: it only decides the rounding direction
F32AddSticky(x, y) == RoundF32(x[1] * 8 + Sgn(y[1]), x[2] - 3)

F32Add(x, y) ==
  IF IsNaN(x) \/ IsNaN(y) THEN F32_NAN
  ELSE IF IsInf(x) THEN (IF IsInf(y) /\ y # x THEN F32_NAN ELSE x)
  ELSE IF IsInf(y) THEN y
  ELSE IF x[1] = 0 THEN y
  ELSE IF y[1] = 0 THEN x
  ELSE IF x[2] - y[2] > P + 3 THEN F32AddSticky(x, y)
  ELSE IF y[2] - x[2] > P + 3 THEN F32AddSticky(y, x)
  ELSE F32AddAligned(x, y, MinInt(x[2], y[2]))

F32Sub(x, y) == F32Add(x, F32Neg(y))

F32Mul(x, y) ==
  IF IsNaN(x) \/ IsNaN(y) THEN F32_NAN
  ELSE IF IsInf(x) \/ IsInf(y)
       THEN (IF x[1] = 0 \/ y[1] = 0 THEN F32_NAN
             ELSE <<Sgn(x[1]) * Sgn(y[1]), ESpecial>>)
  ELSE RoundF32(x[1] * y[1], x[2] + y[2])

\* a nonzero finite magnitude with its significand shifted to P bits
NormMant(a) == a * 2^(P - BitLen(a))

NormExp(a, e) == e - (P - BitLen(a))

F32Div(x, y) ==
  IF IsNaN(x) \/ IsNaN(y) THEN F32_NAN
  ELSE IF IsInf(x)
       THEN (IF IsInf(y) THEN F32_NAN
             ELSE <<x[1] * (IF y[1] < 0 THEN -1 ELSE 1), ESpecial>>)
  ELSE IF IsInf(y) THEN F32_ZERO
  ELSE IF y[1] = 0
       THEN (IF x[1] = 0 THEN F32_NAN ELSE <<Sgn(x[1]), ESpecial>>)
  ELSE IF x[1] = 0 THEN F32_ZERO
  ELSE RoundF32(Sgn(x[1]) * Sgn(y[1])
                  * StickyQuotient(NormMant(AbsInt(x[1])) * 2^(P + 2),
                                   NormMant(AbsInt(y[1]))),
                NormExp(AbsInt(x[1]), x[2]) - NormExp(AbsInt(y[1]), y[2])
                  - (P + 2) - 1)

\* floor of the square root of n, searched between lo and hi
RECURSIVE ISqrt(_, _, _)
ISqrt(n, lo, hi) ==
  IF lo >= hi THEN lo
  ELSE IF ((lo + hi + 1) \div 2) * ((lo + hi + 1) \div 2) <= n
       THEN ISqrt(n, (lo + hi + 1) \div 2, hi)
       ELSE ISqrt(n, lo, (lo + hi + 1) \div 2 - 1)

\* a root with its sticky bit: 2 * s, plus 1 if s * s is below the radicand
StickyRoot(s, rad) == 2 * s + (IF s * s = rad THEN 0 ELSE 1)

\* the scale k that leaves the exponent ex - k even
SqrtScale(ex) == IF (ex - (P + 4)) % 2 = 0 THEN P + 4 ELSE P + 5

\* square root of (a * 2^k) * 2^e2, e2 even
F32SqrtScaled(a, e2, k) ==
  RoundF32(StickyRoot(ISqrt(a * 2^k, 0, 2^(P + 3)), a * 2^k), e2 \div 2 - 1)

F32Sqrt(x) ==
  IF IsNaN(x) THEN F32_NAN
  ELSE IF x[1] < 0 THEN F32_NAN
  ELSE IF IsInf(x) THEN x
  ELSE IF x[1] = 0 THEN F32_ZERO
  ELSE F32SqrtScaled(NormMant(x[1]),
                     NormExp(x[1], x[2]) - SqrtScale(NormExp(x[1], x[2])),
                     SqrtScale(NormExp(x[1], x[2])))

\* f32::clamp: NaN stays NaN
F32Clamp(x, lo, hi) ==
  IF F32Lt(x, lo) THEN lo ELSE IF F32Gt(x, hi) THEN hi ELSE x

(***************************************************************************)
(* u32.  TLC's integers are 32-bit signed, so a u32 is two 16-bit limbs    *)
(* <<hi, lo>> standing for hi * 2^16 + lo.                                 *)
(***************************************************************************)
LimbBase == 65536

U32_ZERO == <<0, 0>>

U32_MAX == <<LimbBase - 1, LimbBase - 1>>

U32FromInt(n) == <<n \div LimbBase, n % LimbBase>>

\* c + 1 modulo 2^32
U32WrappingInc(c) ==
  IF c[2] < LimbBase - 1 THEN <<c[1], c[2] + 1>>
  ELSE IF c[1] < LimbBase - 1 THEN <<c[1] + 1, 0>>
  ELSE U32_ZERO

\* c - 1 modulo 2^32
U32WrappingDec(c) ==
  IF c[2] > 0 THEN <<c[1], c[2] - 1>>
  ELSE IF c[1] > 0 THEN <<c[1] - 1, LimbBase - 1>>
  ELSE U32_MAX

(***************************************************************************)
(* Vector math (lib.rs, lines 6-43).  A slice of f32 is a sequence.        *)
(***************************************************************************)
\* a.iter().zip(b.iter()).map(|(x, y)| x * y).sum(), folded from the left:
\* DotUpTo(a, b, n) is the sum of the first n products
RECURSIVE DotUpTo(_, _, _)
DotUpTo(a, b, n) ==
  IF n = 0 THEN F32_ZERO
  ELSE F32Add(DotUpTo(a, b, n - 1), F32Mul(a[n], b[n]))

dot(a, b) == DotUpTo(a, b, MinInt(Len(a), Len(b)))

\* magnitude without the square root
magnitude_squared(v) == dot(v, v)

magnitude(v) == F32Sqrt(dot(v, v))

\* cosine_similarity once `let mag_a` and `let mag_b` are bound
cosine_similarity_of(a, b, mag_a, mag_b) ==
  IF F32Eq(mag_a, F32_ZERO) \/ F32Eq(mag_b, F32_ZERO)
  THEN F32_ZERO
  ELSE F32Clamp(F32Div(dot(a, b), F32Mul(mag_a, mag_b)),
                F32FromInt(-1), F32FromInt(1))

cosine_similarity(a, b) ==
  cosine_similarity_of(a, b, magnitude(a), magnitude(b))

\* normalize returning Vec::new() for a vector of magnitude 0
normalize_by_empty_on_zero(v, mag) ==
  IF F32Eq(mag, F32_ZERO)
  THEN <<>>
  ELSE [i \in 1..Len(v) |-> F32Div(v[i], mag)]

\* normalize once `let mag` is bound
normalize_by(v, mag) ==
  IF F32Eq(mag, F32_ZERO)
  THEN [i \in 1..Len(v) |-> F32_ZERO]
  ELSE [i \in 1..Len(v) |-> F32Div(v[i], mag)]

normalize(v) == normalize_by(v, magnitude(v))

\* ema_fusion with the two weights exchanged
ema_fusion_weights_swapped(current, previous, alpha) ==
  [i \in 1..MinInt(Len(current), Len(previous)) |->
     F32Add(F32Mul(F32Sub(F32FromInt(1), alpha), current[i]),
            F32Mul(alpha, previous[i]))]

ema_fusion(current, previous, alpha) ==
  [i \in 1..MinInt(Len(current), Len(previous)) |->
     F32Add(F32Mul(alpha, current[i]),
            F32Mul(F32Sub(F32FromInt(1), alpha), previous[i]))]

(***************************************************************************)
(* WasmStateEngine (lib.rs, lines 77-190).  Timestamps are f64 holding     *)
(* integer milliseconds, which f64 represents exactly.                     *)
(***************************************************************************)
AGE_DECAY_RATE == F32FromRatio(1, 10000)

DRIFT_WEIGHT == F32FromRatio(1, 2)

new(alpha, drift_threshold) ==
  [alpha           |-> alpha,
   drift_threshold |-> drift_threshold,
   state_vector    |-> <<>>,
   last_updated_at |-> 0,
   last_drift      |-> F32_ZERO,
   update_count    |-> U32_ZERO]

\* serde_wasm_bindgen::to_value(&UpdateResult), fields renamed to camelCase
UpdateResultToValue(drift_detected, drift_score, vector) ==
  [kind          |-> "Ok",
   driftDetected |-> drift_detected,
   driftScore    |-> drift_score,
   vector        |-> vector]

ErrEmpty == [kind |-> "Err", message |-> <<"Embedding must not be empty">>]

ErrDimension(expected, got) ==
  [kind    |-> "Err",
   message |-> <<"Embedding dimension mismatch: expected {}, got {}",
                 expected, got>>]

\* `self.update_count += 1` overflowed in a build with overflow checks
PanicOverflow == [kind |-> "Panic", message |-> <<"attempt to add with overflow">>]

\* The end of update (lines 147-156): the timestamp, the counter, the result.
\* overflow_checks: whether `+= 1` panics on overflow (debug profile) or
\* wraps (release profile).  The fields assigned before the panic stay
\* assigned.
update_commit(self, embedding, now_ms, overflow_checks, state_vector, last_drift, drift_detected, drift_score) ==
  IF self.update_count = U32_MAX /\ overflow_checks
  THEN [self |-> [self EXCEPT !.state_vector = state_vector,
                              !.last_drift = last_drift,
                              !.last_updated_at = now_ms],
        ret  |-> PanicOverflow]
  ELSE [self |-> [self EXCEPT !.state_vector = state_vector,
                              !.last_drift = last_drift,
                              !.last_updated_at = now_ms,
                              !.update_count = U32WrappingInc(self.update_count)],
        ret  |-> UpdateResultToValue(drift_detected, drift_score, embedding)]

\* The else branch of update (lines 138-144) once `let similarity` is bound
update_tracking(self, embedding, now_ms, overflow_checks, similarity) ==
  update_commit(self, embedding, now_ms, overflow_checks,
                ema_fusion(embedding, self.state_vector, self.alpha),
                F32Sub(F32FromInt(1), similarity),
                F32Lt(similarity, self.drift_threshold),
                F32Sub(F32FromInt(1), similarity))

\* update with `self.last_updated_at = now_ms` moved above the validation
update_stamps_before_validating(self, embedding, now_ms, overflow_checks) ==
  IF Len(embedding) = 0
  THEN [self |-> [self EXCEPT !.last_updated_at = now_ms], ret |-> ErrEmpty]
  ELSE IF self.update_count = U32_ZERO
  THEN update_commit(self, embedding, now_ms, overflow_checks,
                     ema_fusion(embedding,
                                [i \in 1..Len(embedding) |-> F32_ZERO],
                                self.alpha),
                     self.last_drift, FALSE, F32_ZERO)
  ELSE IF Len(embedding) # Len(self.state_vector)
  THEN [self |-> [self EXCEPT !.last_updated_at = now_ms],
        ret  |-> ErrDimension(Len(self.state_vector), Len(embedding))]
  ELSE update_tracking(self, embedding, now_ms, overflow_checks,
                       cosine_similarity(self.state_vector, embedding))

\* update returns the engine after the call and what the call returned
update(self, embedding, now_ms, overflow_checks) ==
  IF Len(embedding) = 0
  THEN [self |-> self, ret |-> ErrEmpty]
  ELSE IF self.update_count = U32_ZERO
  THEN update_commit(self, embedding, now_ms, overflow_checks,
                     ema_fusion(embedding,
                                [i \in 1..Len(embedding) |-> F32_ZERO],
                                self.alpha),
                     self.last_drift, FALSE, F32_ZERO)
  ELSE IF Len(embedding) # Len(self.state_vector)
  THEN [self |-> self,
        ret  |-> ErrDimension(Len(self.state_vector), Len(embedding))]
  ELSE update_tracking(self, embedding, now_ms, overflow_checks,
                       cosine_similarity(self.state_vector, embedding))

\* calculate_health once the two penalties are bound
health_of(age_penalty, drift_penalty) ==
  F32Clamp(F32Sub(F32Sub(F32FromInt(1), age_penalty), drift_penalty),
           F32_ZERO, F32FromInt(1))

\* calculate_health taking now_ms itself as the time since the update
calculate_health_from_epoch(self, now_ms) ==
  health_of(F32Mul(F32FromInt(MaxInt(now_ms, 0)), AGE_DECAY_RATE),
            F32Mul(self.last_drift, DRIFT_WEIGHT))

calculate_health(self, now_ms) ==
  health_of(F32Mul(F32FromInt(MaxInt(now_ms - self.last_updated_at, 0)),
                   AGE_DECAY_RATE),
            F32Mul(self.last_drift, DRIFT_WEIGHT))

build_summary(health_score) ==
  IF F32Gt(health_score, F32FromRatio(4, 5)) THEN "stable"
  ELSE IF F32Gt(health_score, F32FromRatio(1, 2)) THEN "drifting"
  ELSE "volatile"

\* serde_wasm_bindgen::to_value(&Snapshot), fields renamed to camelCase
SnapshotToValue(vector, health_score, timestamp, semantic_summary) ==
  [kind            |-> "Ok",
   vector          |-> vector,
   healthScore     |-> health_score,
   timestamp       |-> timestamp,
   semanticSummary |-> semantic_summary]

\* get_snapshot once `let health_score` is bound
snapshot_of(self, health_score) ==
  SnapshotToValue(self.state_vector, health_score, self.last_updated_at,
                  build_summary(health_score))

\* get_snapshot stamping the snapshot with its own now_ms
get_snapshot_stamped_now(self, now_ms) ==
  SnapshotToValue(self.state_vector, calculate_health(self, now_ms), now_ms,
                  build_summary(calculate_health(self, now_ms)))

get_snapshot(self, now_ms) == snapshot_of(self, calculate_health(self, now_ms))

wasm_normalize(v) == normalize(v)

(***************************************************************************)
(* The state machine: one engine instance and its host.                    *)
(***************************************************************************)
VARIABLES
  self,             \* the WasmStateEngine instance
  overflow_checks,  \* build profile: integer overflow panics (TRUE) or wraps
  trapped,          \* a call on the instance has panicked: it takes no more calls
  call,             \* history: the last call and its arguments
  pre,              \* history: the engine as it was before the last call
  ret,              \* history: what the last call returned
  prev,             \* history: the call before the last, and how it ended
  successes,        \* history: number of updates that returned Ok, 3 limbs
  first_len,        \* history: length accepted by the first Ok update, or 0
  first,            \* history: embedding and state vector of the first Ok update
  last_score,       \* history: driftScore of the last Ok update after the first
  last_ok_now,      \* history: now_ms of the last Ok update, or 0
  steps             \* number of calls made in this run

vars == <<self, overflow_checks, trapped, call, pre, ret, prev, successes, first_len,
          first, last_score, last_ok_now, steps>>

\* calls made by one run of the model
MaxSteps == 2

\* updates after which a repeated update is taken to have settled
SettleSteps == 12

ONE == F32FromInt(1)

HALF == F32Pow2(-1)

\* 2^65: finite, and the square of its half is above f32::MAX
HUGE == F32Pow2(65)

Alphas == {F32_ZERO, HALF, ONE}

\* the largest f32 below 1.0
NEARLY_ONE == RoundF32(2^P - 1, -P)

Thresholds == {F32_ZERO, HALF, NEARLY_ONE, F32FromInt(2)}

Embeddings ==
  { <<>>, <<F32_ZERO>>, <<ONE>>, <<F32Neg(ONE)>>, <<HUGE>>,
    <<ONE, F32_ZERO>>, <<F32_ZERO, ONE>>, <<F32FromInt(3), F32FromInt(5)>> }

UpdateTimes == {0, 2000}

SnapshotTimes == {0, 2000, 6000}

\* a count of successes: <<carry, hi, lo>>
CountOf(c) == <<0, c[1], c[2]>>

CountInc(n) ==
  <<IF <<n[2], n[3]>> = U32_MAX THEN n[1] + 1 ELSE n[1]>>
  \o U32WrappingInc(<<n[2], n[3]>>)

SameButCount(a, b) == [a EXCEPT !.update_count = U32_ZERO]
                      = [b EXCEPT !.update_count = U32_ZERO]

\* the engine e after update(embedding, now_ms) has been repeated until one
\* more repetition (giving e1) changes nothing but update_count, at most k
\* times
RECURSIVE SettleFrom(_, _, _, _, _)
SettleFrom(e, e1, embedding, now_ms, k) ==
  IF k = 0 \/ SameButCount(e1, e) THEN e
  ELSE SettleFrom(e1, update(e1, embedding, now_ms, FALSE).self,
                  embedding, now_ms, k - 1)

Settle(e, embedding, now_ms, k) ==
  SettleFrom(e, update(e, embedding, now_ms, FALSE).self, embedding, now_ms, k)

\* Init, fresh: the state right after the constructor.  The threshold just
\* below 1.0 is paired with alpha = 0.5 only.
InitNew ==
  \E a \in Alphas, d \in Thresholds :
    /\ d = NEARLY_ONE => a = HALF
    /\ self = new(a, d)
    /\ call = [op |-> "new", alpha |-> a, drift_threshold |-> d]
    /\ pre = self
    /\ ret = [kind |-> "Ok"]
    /\ prev = [op |-> "none", kind |-> "none"]
    /\ successes = CountOf(U32_ZERO)
    /\ first_len = 0
    /\ first = [embedding |-> <<>>, state_vector |-> <<>>]
    /\ last_score = F32_ZERO
    /\ last_ok_now = 0

\* Init, long-running: the engine after update(embedding, now_ms) has been
\* called u32::MAX - j times in a row on a fresh engine.  Settle finds the
\* state that the repetition no longer changes, so that only update_count
\* tells the N-th repetition from the SettleSteps-th.  The embeddings
\* repeated: [1, 0] for every alpha, and [2^65] for alpha = 0.5.
InitLongRunning ==
  \E a \in Alphas, d \in {HALF}, j \in {0, 1},
     embedding \in {<<ONE, F32_ZERO>>, <<HUGE>>}, now_ms \in {0} :
    \E s \in {Settle(new(a, d), embedding, now_ms, SettleSteps)} :
      \E before \in {[s EXCEPT !.update_count =
                         U32WrappingDec(<<LimbBase - 1, LimbBase - 1 - j>>)]} :
        \E last \in {update(before, embedding, now_ms, FALSE)} :
          /\ embedding = <<HUGE>> => (a = HALF /\ j = 1)
          /\ s.update_count # U32_ZERO
          /\ SameButCount(last.self, s)
          /\ self = last.self
          /\ call = [op |-> "update", embedding |-> embedding,
                     now_ms |-> now_ms]
          /\ pre = before
          /\ ret = last.ret
          /\ prev = [op |-> "update", kind |-> last.ret.kind]
          /\ successes = CountOf(last.self.update_count)
          /\ first_len = Len(embedding)
          /\ first = [embedding    |-> embedding,
                      state_vector |-> update(new(a, d), embedding, now_ms,
                                              FALSE).self.state_vector]
          /\ last_score = last.ret.driftScore
          /\ last_ok_now = now_ms

\* The build profile shows only when update_count overflows, which a fresh
\* engine does not reach within MaxSteps calls: fresh engines are taken from
\* one profile, long-running engines from both.
Init ==
  /\ trapped = FALSE
  /\ steps = 0
  /\ \/ overflow_checks = FALSE /\ InitNew
     \/ overflow_checks \in BOOLEAN /\ InitLongRunning

\* the host calls engine.update(embedding, now_ms)
Update ==
  \E embedding \in Embeddings, now_ms \in UpdateTimes :
    \E r \in {update(self, embedding, now_ms, overflow_checks)} :
      /\ ~trapped
      /\ steps < MaxSteps
      /\ steps' = steps + 1
      /\ call' = [op |-> "update", embedding |-> embedding, now_ms |-> now_ms]
      /\ pre' = self
      /\ prev' = [op |-> call.op, kind |-> ret.kind]
      /\ self' = r.self
      /\ ret' = r.ret
      /\ trapped' = (r.ret.kind = "Panic")
      /\ last_ok_now' = IF r.ret.kind = "Ok" THEN now_ms ELSE last_ok_now
      /\ successes' = IF r.ret.kind = "Ok" THEN CountInc(successes)
                      ELSE successes
      /\ first_len' = IF r.ret.kind = "Ok" /\ successes = CountOf(U32_ZERO)
                      THEN Len(embedding) ELSE first_len
      /\ first' = IF r.ret.kind = "Ok" /\ successes = CountOf(U32_ZERO)
                  THEN [embedding    |-> embedding,
                        state_vector |-> r.self.state_vector]
                  ELSE first
      /\ last_score' = IF r.ret.kind = "Ok" /\ successes # CountOf(U32_ZERO)
                       THEN r.ret.driftScore ELSE last_score
      /\ UNCHANGED overflow_checks

\* get_snapshot taking &mut self and refreshing last_updated_at
GetSnapshotTouching ==
  \E now_ms \in SnapshotTimes :
    /\ ~trapped
    /\ steps < MaxSteps
    /\ steps' = steps + 1
    /\ call' = [op |-> "get_snapshot", now_ms |-> now_ms]
    /\ pre' = self
    /\ prev' = [op |-> call.op, kind |-> ret.kind]
    /\ ret' = get_snapshot(self, now_ms)
    /\ self' = [self EXCEPT !.last_updated_at = now_ms]
    /\ UNCHANGED <<overflow_checks, trapped, successes, first_len, first,
                   last_score, last_ok_now>>

\* the host calls engine.get_snapshot(now_ms)
GetSnapshot ==
  \E now_ms \in SnapshotTimes :
    /\ ~trapped
    /\ steps < MaxSteps
    /\ steps' = steps + 1
    /\ call' = [op |-> "get_snapshot", now_ms |-> now_ms]
    /\ pre' = self
    /\ prev' = [op |-> call.op, kind |-> ret.kind]
    /\ ret' = get_snapshot(self, now_ms)
    /\ UNCHANGED <<self, overflow_checks, trapped, successes, first_len,
                   first, last_score, last_ok_now>>

Next == Update \/ GetSnapshot

Spec == Init /\ [][Next]_vars

(***************************************************************************)
(* The exported free function wasm_normalize, called by the host with a    *)
(* Float32Array while it holds an engine.                                  *)
(***************************************************************************)
\* length of the vectors given to wasm_normalize
MaxLen == 2

\* 2^-80: not zero, and its square underflows to 0.0
TINY == F32Pow2(-80)

Components == {F32_ZERO, ONE, F32FromInt(-3), F32FromInt(4), HUGE, TINY}

RECURSIVE VectorsOfLen(_)
VectorsOfLen(n) ==
  IF n = 0 THEN {<<>>}
  ELSE {Append(v, c) : v \in VectorsOfLen(n - 1), c \in Components}

Vectors == UNION {VectorsOfLen(n) : n \in 0..MaxLen}

\* the host holds a fresh engine and has called wasm_normalize(v)
InitNormalize ==
  \E a \in Alphas, v \in Vectors :
    /\ self = new(a, HALF)
    /\ overflow_checks = FALSE
    /\ trapped = FALSE
    /\ steps = 0
    /\ call = [op |-> "wasm_normalize", v |-> v]
    /\ pre = self
    /\ ret = [kind |-> "Pending"]
    /\ prev = [op |-> "new", kind |-> "Ok"]
    /\ successes = CountOf(U32_ZERO)
    /\ first_len = 0
    /\ first = [embedding |-> <<>>, state_vector |-> <<>>]
    /\ last_score = F32_ZERO
    /\ last_ok_now = 0

\* wasm_normalize(v) returns
WasmNormalize ==
  /\ call.op = "wasm_normalize"
  /\ ret.kind = "Pending"
  /\ ret' = [kind |-> "Ok", vector |-> wasm_normalize(call.v)]
  /\ steps' = steps + 1
  /\ UNCHANGED <<self, overflow_checks, trapped, call, pre, prev, successes,
                 first_len, first, last_score, last_ok_now>>

NextNormalize == WasmNormalize

SpecNormalize == InitNormalize /\ [][NextNormalize]_vars

(***************************************************************************)
(* The claims.                                                             *)
(***************************************************************************)
IsUpdate == call.op = "update"

IsSnapshot == call.op = "get_snapshot"

\* the engine before the last call had a baseline (a state vector of length L)
HadBaseline == Len(pre.state_vector) > 0

\* C1: an update that returns an error (empty embedding, or wrong length once
\* a baseline exists) leaves every field of the engine as it was, and the
\* update that follows it gives the engine and the result that the same call
\* gives on the engine as it was before the failed call.
C1_ErrorLeavesEngine ==
  [][ /\ (call'.op = "update" /\ ret'.kind = "Err") => self' = self
      /\ (IsUpdate /\ ret.kind = "Err" /\ call'.op = "update")
           => /\ self' = update(pre, call'.embedding, call'.now_ms,
                                overflow_checks).self
              /\ ret' = update(pre, call'.embedding, call'.now_ms,
                               overflow_checks).ret ]_vars

\* C1 witness: a valid update right after a dimension-mismatch error on an
\* engine with a baseline
C1_Witness ==
  /\ IsUpdate /\ ret.kind = "Ok"
  /\ prev = [op |-> "update", kind |-> "Err"]
  /\ HadBaseline

\* C2: update fails exactly when the embedding is empty (empty-input error,
\* also when a baseline exists) or a baseline of length L exists and the
\* embedding has another length (dimension mismatch naming L and the length
\* received); every other embedding is accepted.
C2_FailsIff ==
  IsUpdate =>
    /\ ret.kind # "Ok" <=>
         \/ Len(call.embedding) = 0
         \/ HadBaseline /\ Len(call.embedding) # Len(pre.state_vector)
    /\ Len(call.embedding) = 0 => ret = ErrEmpty
    /\ (Len(call.embedding) # 0 /\ HadBaseline
          /\ Len(call.embedding) # Len(pre.state_vector))
         => ret = ErrDimension(Len(pre.state_vector), Len(call.embedding))

\* C3: once update_count has been >= 1 it is never 0 again, so the baseline
\* branch is never taken a second time.
C3_BaselineOnlyOnce ==
  [][self.update_count # U32_ZERO => self'.update_count # U32_ZERO]_vars

\* C4: the state vector is empty exactly when no update has succeeded, and
\* otherwise has the length accepted by the first successful update.
C4_LengthFixed ==
  /\ self.state_vector = <<>> <=> successes = CountOf(U32_ZERO)
  /\ successes # CountOf(U32_ZERO) => Len(self.state_vector) = first_len

\* the engine before the last call was as the constructor left it
WasFresh == pre = new(pre.alpha, pre.drift_threshold)

\* C5: an update with a non-empty embedding on a fresh engine succeeds,
\* returns driftDetected = false, driftScore = 0.0 and the embedding, sets the
\* state vector to alpha * embedding elementwise (which is ema_fusion against
\* zeros) and leaves last_drift at 0, whatever the threshold.
C5_BaselineUpdate ==
  (IsUpdate /\ WasFresh /\ Len(call.embedding) # 0) =>
    /\ ret = UpdateResultToValue(FALSE, F32_ZERO, call.embedding)
    /\ self.state_vector =
         [i \in 1..Len(call.embedding) |-> F32Mul(pre.alpha, call.embedding[i])]
    /\ self.state_vector =
         ema_fusion(call.embedding,
                    [i \in 1..Len(call.embedding) |-> F32_ZERO], pre.alpha)
    /\ self.last_drift = F32_ZERO

\* C5 witness: a baseline update of length 2 with alpha = 0.5 under a
\* threshold above every similarity
C5_Witness ==
  /\ IsUpdate /\ WasFresh /\ ret.kind = "Ok"
  /\ Len(call.embedding) = 2
  /\ pre.alpha = HALF
  /\ pre.drift_threshold = F32FromInt(2)

\* C6: a successful update on a Tracking engine (update count >= 1, state
\* vector established) returns driftScore = 1 - similarity of the state vector
\* before the call and the embedding, with 0 <= driftScore <= 2, returns
\* driftDetected = (similarity < driftThreshold) and the embedding, and leaves
\* the state vector at ema_fusion(embedding, state vector before, alpha).
C6_TrackingUpdate ==
  (IsUpdate /\ ret.kind = "Ok" /\ pre.update_count # U32_ZERO /\ HadBaseline) =>
    \E similarity \in {cosine_similarity(pre.state_vector, call.embedding)} :
      /\ ret.driftScore = F32Sub(F32FromInt(1), similarity)
      /\ F32Le(F32_ZERO, ret.driftScore)
      /\ F32Le(ret.driftScore, F32FromInt(2))
      /\ ret.driftDetected = F32Lt(similarity, pre.drift_threshold)
      /\ ret.vector = call.embedding
      /\ self.state_vector =
           ema_fusion(call.embedding, pre.state_vector, pre.alpha)

\* C7: a successful update sets last_updated_at to its now_ms and adds exactly
\* 1 to update_count, and update_count is the number of successful updates
\* since construction.
C7_CountsSuccesses ==
  /\ (IsUpdate /\ ret.kind = "Ok") =>
       /\ self.last_updated_at = call.now_ms
       /\ CountOf(self.update_count) = CountInc(CountOf(pre.update_count))
  /\ CountOf(self.update_count) = successes

\* C8: last_drift is the driftScore returned by the most recent successful
\* update after the first one, and 0 if there has been none.
C8_LastDrift == self.last_drift = last_score

\* C9: get_snapshot returns Ok and changes no field of the engine, and the
\* update that follows a snapshot gives the engine and the result that the
\* same call gives on the engine as it was before the snapshot.
C9_SnapshotReadOnly ==
  [][ /\ call'.op = "get_snapshot" => (self' = self /\ ret'.kind = "Ok")
      /\ (IsSnapshot /\ call'.op = "update")
           => /\ self' = update(pre, call'.embedding, call'.now_ms,
                                overflow_checks).self
              /\ ret' = update(pre, call'.embedding, call'.now_ms,
                               overflow_checks).ret ]_vars

\* C9 witness: an update that succeeds right after a snapshot of an engine
\* with a baseline
C9_Witness ==
  /\ IsUpdate /\ ret.kind = "Ok" /\ HadBaseline
  /\ prev = [op |-> "get_snapshot", kind |-> "Ok"]

\* C10: a snapshot returns the state vector and, as timestamp, last_updated_at,
\* which is the now_ms of the most recent successful update whatever the
\* now_ms of the snapshot; with no successful update it returns the
\* constructor's values: the empty vector, timestamp 0, and the health of a
\* drift of 0.
C10_SnapshotFields ==
  IsSnapshot =>
    /\ ret.vector = self.state_vector
    /\ ret.timestamp = self.last_updated_at
    /\ ret.timestamp = last_ok_now
    /\ successes = CountOf(U32_ZERO) =>
         /\ ret.vector = <<>>
         /\ ret.timestamp = 0
         /\ self.last_drift = F32_ZERO
         /\ ret.healthScore =
              health_of(F32Mul(F32FromInt(call.now_ms), AGE_DECAY_RATE),
                        F32_ZERO)

\* C10 witness: a snapshot of an engine last updated at 2000, taken at
\* another time
C10_Witness ==
  /\ IsSnapshot
  /\ self.state_vector # <<>>
  /\ ret.timestamp = 2000
  /\ call.now_ms # 2000

\* elapsed time of the last snapshot: max(0, now - lastUpdatedAt)
Elapsed == MaxInt(call.now_ms - self.last_updated_at, 0)

\* C11: the healthScore of a snapshot is
\* clamp(1 - max(0, now - lastUpdatedAt) * 0.0001 - lastDrift * 0.5, 0, 1), so
\* 0 <= healthScore <= 1, and a now earlier than lastUpdatedAt gives the
\* health of elapsed 0.
C11_HealthFormula ==
  IsSnapshot =>
    /\ ret.healthScore =
         F32Clamp(F32Sub(F32Sub(ONE, F32Mul(F32FromInt(Elapsed), AGE_DECAY_RATE)),
                         F32Mul(self.last_drift, DRIFT_WEIGHT)),
                  F32_ZERO, ONE)
    /\ F32Le(F32_ZERO, ret.healthScore)
    /\ F32Le(ret.healthScore, ONE)
    /\ call.now_ms < self.last_updated_at =>
         ret.healthScore = calculate_health(self, self.last_updated_at)

\* C12: the semanticSummary of a snapshot is one of three labels, fixed by the
\* healthScore of the same snapshot: "stable" iff health > 0.8, "drifting" iff
\* 0.5 < health <= 0.8, "volatile" iff health <= 0.5.
C12_SummaryBuckets ==
  IsSnapshot =>
    /\ ret.semanticSummary \in {"stable", "drifting", "volatile"}
    /\ ret.semanticSummary = "stable"
         <=> F32Gt(ret.healthScore, F32FromRatio(4, 5))
    /\ ret.semanticSummary = "drifting"
         <=> /\ F32Gt(ret.healthScore, F32FromRatio(1, 2))
             /\ F32Le(ret.healthScore, F32FromRatio(4, 5))
    /\ ret.semanticSummary = "volatile"
         <=> F32Le(ret.healthScore, F32FromRatio(1, 2))

SnapshotAfterBaseline ==
  /\ IsSnapshot
  /\ prev = [op |-> "update", kind |-> "Ok"]
  /\ successes = CountInc(CountOf(U32_ZERO))
  /\ call.now_ms = last_ok_now

\* C14: fresh engine, update(embedding, t) succeeds, snapshot(t): the snapshot
\* has healthScore 1.0, semanticSummary "stable" and timestamp t, for every
\* alpha, threshold and non-empty embedding.
C14_HealthyAfterBaseline ==
  SnapshotAfterBaseline =>
    /\ ret.healthScore = ONE
    /\ ret.semanticSummary = "stable"
    /\ ret.timestamp = call.now_ms

\* C14 witness: such a snapshot at t = 2000
C14_Witness ==
  /\ SnapshotAfterBaseline
  /\ call.now_ms = 2000
  /\ ret.kind = "Ok"

\* the last call is the second successful update of an engine, with the
\* embedding of the first one, on an engine whose threshold is below 1
SecondIdentical ==
  /\ IsUpdate /\ ret.kind = "Ok"
  /\ successes = CountInc(CountInc(CountOf(U32_ZERO)))
  /\ call.embedding = first.embedding
  /\ F32Lt(pre.drift_threshold, ONE)

Tolerance == F32Pow2(2 - P)

\* the magnitudes of a and b and their product are neither 0 nor infinite
WellScaled(a, b) ==
  /\ IsFinite(magnitude(a)) /\ ~F32Eq(magnitude(a), F32_ZERO)
  /\ IsFinite(magnitude(b)) /\ ~F32Eq(magnitude(b), F32_ZERO)
  /\ IsFinite(F32Mul(magnitude(a), magnitude(b)))

OrthogonalUpdate ==
  /\ IsUpdate /\ HadBaseline
  /\ Len(call.embedding) = Len(pre.state_vector)
  /\ F32Eq(dot(pre.state_vector, call.embedding), F32_ZERO)
  /\ pre.drift_threshold = HALF

\* C16: a Tracking update whose embedding is orthogonal to the state vector,
\* with driftThreshold = 0.5, reports driftScore 1.0 and driftDetected = true;
\* with alpha = 0.5, update([1,0]) on the fresh engine gives {false, 0.0} and
\* state [0.5, 0.0], then update([0,1]) gives {true, 1.0} and state
\* [0.25, 0.5].
C16_Orthogonal ==
  /\ OrthogonalUpdate =>
       /\ ret.kind = "Ok"
       /\ ret.driftScore = ONE
       /\ ret.driftDetected = TRUE
  /\ (/\ IsUpdate /\ WasFresh
      /\ pre.alpha = HALF /\ pre.drift_threshold = HALF
      /\ call.embedding = <<ONE, F32_ZERO>>) =>
       /\ ret = UpdateResultToValue(FALSE, F32_ZERO, <<ONE, F32_ZERO>>)
       /\ self.state_vector = <<HALF, F32_ZERO>>
  /\ (/\ IsUpdate
      /\ pre.alpha = HALF /\ pre.drift_threshold = HALF
      /\ pre.update_count = U32FromInt(1)
      /\ first.embedding = <<ONE, F32_ZERO>>
      /\ pre.state_vector = first.state_vector
      /\ call.embedding = <<F32_ZERO, ONE>>) =>
       /\ ret = UpdateResultToValue(TRUE, ONE, <<F32_ZERO, ONE>>)
       /\ self.state_vector = <<F32Pow2(-2), HALF>>

\* C17: ema_fusion(c, p, 1) = c and ema_fusion(c, p, 0) = p exactly; so with
\* alpha = 1 the state vector after every successful update is that update's
\* embedding, and with alpha = 0 the state vector after any number of
\* successful updates is the one set by the first successful update.
C17_NoMemoryOrFrozen ==
  /\ (IsUpdate /\ Len(call.embedding) = Len(pre.state_vector)) =>
       /\ ema_fusion(call.embedding, pre.state_vector, ONE) = call.embedding
       /\ ema_fusion(call.embedding, pre.state_vector, F32_ZERO)
            = pre.state_vector
  /\ (IsUpdate /\ ret.kind = "Ok" /\ pre.alpha = ONE) =>
       self.state_vector = call.embedding
  /\ (self.alpha = F32_ZERO /\ successes # CountOf(U32_ZERO)) =>
       self.state_vector = first.state_vector

\* the last call is an update with an embedding of the right length on an
\* engine with a baseline, and the state vector or the embedding has
\* magnitude 0
ZeroMagnitudeUpdate ==
  /\ IsUpdate /\ HadBaseline
  /\ Len(call.embedding) = Len(pre.state_vector)
  /\ \/ F32Eq(magnitude(pre.state_vector), F32_ZERO)
     \/ F32Eq(magnitude(call.embedding), F32_ZERO)

\* C18: a Tracking update in which the state vector or the embedding has
\* magnitude exactly 0 takes the similarity to be 0.0: it succeeds, reports
\* driftScore 1.0, reports driftDetected exactly when driftThreshold > 0, and
\* stores 1.0 in last_drift.
C18_ZeroMagnitude ==
  ZeroMagnitudeUpdate =>
    /\ cosine_similarity(pre.state_vector, call.embedding) = F32_ZERO
    /\ ret.kind = "Ok"
    /\ ret.driftScore = ONE
    /\ ret.driftDetected = F32Gt(pre.drift_threshold, F32_ZERO)
    /\ self.last_drift = ONE

====
